---- MODULE Spec2Model ----
(***************************************************************************)
(* Model of qos_streamlit_app_single_cert.py: the greedy word wrap         *)
(* (wrap_text), the certificate page layout (draw_certificate), the PDF    *)
(* assembly loop of main() and the Streamlit session workflow of main().   *)
(*                                                                         *)
(* Text is a sequence of one-character strings.  Lengths are integers in   *)
(* units of 1/31750 pt, the unit in which both reportlab's cm (72/2.54 pt) *)
(* and a Helvetica glyph width at size 12 (AFM width * 12/1000 pt) are     *)
(* whole numbers: 1 cm = 900000 units, 1 AFM unit at size 12 = 381 units.  *)
(***************************************************************************)
EXTENDS Integers, Sequences, FiniteSets, TLC

VARIABLES
    pc,          \* position of the run being modelled
    text,        \* wrap_text: the paragraph
    max_w,       \* wrap_text: the width limit
    wrapped,     \* wrap_text: its result (draw commands and returned y)
    cert,        \* draw_certificate: the record being laid out
    page,        \* draw_certificate: its result (draw commands, raised or not)
    records,     \* main: st.session_state["certs"] handed to the PDF loop
    MT_IMG,      \* module global MT_IMG (line 48)
    clock,       \* the wall clock, in seconds after 01-01-2024 00:00:00
    gen_ts,      \* main: the local gen_ts
    idx,         \* main: how many records the for loop has taken
    c_code,      \* Canvas: the draw commands of the page being drawn
    c_pages,     \* Canvas: the pages ended by showPage
    pdf_data,    \* main: the saved document
    session_state, \* st.session_state
    msg,         \* what the last script run showed (st.error / st.success / exception)
    downloads    \* how many PDFs st.download_button has offered so far

vars == <<pc, text, max_w, wrapped, cert, page, records, MT_IMG, clock, gen_ts,
          idx, c_code, c_pages, pdf_data, session_state, msg, downloads>>

None == "None"

\* a Python dict: the empty dict and d[k] = v
EmptyDict == [k \in {} |-> None]
Put(d, k, v) == [x \in DOMAIN d \cup {k} |-> IF x = k THEN v ELSE d[x]]

-----------------------------------------------------------------------------
(* Units: reportlab.lib.units and reportlab.lib.pagesizes.A4 *)

cm == 900000
mm == 90000
A4_W == 210 * mm

-----------------------------------------------------------------------------
(* Characters and Python's str methods *)

LowerCase == <<"a","b","c","d","e","f","g","h","i","j","k","l","m",
               "n","o","p","q","r","s","t","u","v","w","x","y","z">>
UpperCase == <<"A","B","C","D","E","F","G","H","I","J","K","L","M",
               "N","O","P","Q","R","S","T","U","V","W","X","Y","Z">>
DigitChars == <<"0","1","2","3","4","5","6","7","8","9">>
Punct == <<" ", ",", "-", ".", "/", ":", "_">>
RUPEE == "Rs"

Range(s) == {s[i] : i \in DOMAIN s}
IndexOf(s, c) == CHOOSE i \in DOMAIN s : s[i] = c

\* Helvetica AFM glyph widths (1/1000 em), as reportlab's stringWidth reads them
LowerW == <<556,556,500,556,556,278,556,556,222,222,500,222,833,
            556,556,556,556,333,500,278,556,500,722,500,500,500>>
UpperW == <<667,667,722,722,667,611,778,722,278,500,667,556,833,
            722,778,667,778,722,667,611,722,667,944,667,667,611>>
PunctW == <<278, 278, 333, 278, 278, 278, 556>>
DigitW == 556

Alphabet == Range(LowerCase) \cup Range(UpperCase) \cup Range(DigitChars) \cup Range(Punct)

HelveticaW ==
    [c \in Alphabet |->
        IF c \in Range(LowerCase) THEN LowerW[IndexOf(LowerCase, c)]
        ELSE IF c \in Range(UpperCase) THEN UpperW[IndexOf(UpperCase, c)]
        ELSE IF c \in Range(DigitChars) THEN DigitW
        ELSE PunctW[IndexOf(Punct, c)]]

\* the sum of the glyph widths of s[lo..hi]
RECURSIVE AfmRange(_, _, _)
AfmRange(s, lo, hi) ==
    IF lo > hi THEN 0
    ELSE IF lo = hi THEN HelveticaW[s[lo]]
    ELSE LET mid == (lo + hi) \div 2
         IN AfmRange(s, lo, mid) + AfmRange(s, mid + 1, hi)
AfmSum(s) == AfmRange(s, 1, Len(s))

\* stringWidth(text, "Helvetica", size): AFM sum * size / 1000 pt
stringWidth(s, size) == (AfmSum(s) * size * 127) \div 4

\* str.lower() / str.upper()
LowerChar(c) == IF c \in Range(UpperCase) THEN LowerCase[IndexOf(UpperCase, c)] ELSE c
UpperChar(c) == IF c \in Range(LowerCase) THEN UpperCase[IndexOf(LowerCase, c)] ELSE c
lower(s) == [i \in DOMAIN s |-> LowerChar(s[i])]
upper(s) == [i \in DOMAIN s |-> UpperChar(s[i])]

\* str.replace(old, new) for one-character old and new
replace(s, old, new) == [i \in DOMAIN s |-> IF s[i] = old THEN new ELSE s[i]]

\* str.startswith(prefix)
startswith(s, prefix) ==
    /\ Len(s) >= Len(prefix)
    /\ SubSeq(s, 1, Len(prefix)) = prefix

\* str.strip(): drop leading and trailing whitespace
RECURSIVE FirstInk(_, _)
FirstInk(s, i) == IF i <= Len(s) /\ s[i] = " " THEN FirstInk(s, i + 1) ELSE i
RECURSIVE LastInk(_, _)
LastInk(s, i) == IF i >= 1 /\ s[i] = " " THEN LastInk(s, i - 1) ELSE i
strip(s) == SubSeq(s, FirstInk(s, 1), LastInk(s, Len(s)))

\* str.split(): the maximal runs of non-whitespace characters, in order
split(s) ==
    LET starts == {i \in DOMAIN s : s[i] # " " /\ (i = 1 \/ s[i - 1] = " ")}
        ends == {i \in DOMAIN s : s[i] # " " /\ (i = Len(s) \/ s[i + 1] = " ")}
        kth(S, k) == CHOOSE i \in S : Cardinality({j \in S : j < i}) = k - 1
    IN [k \in 1..Cardinality(starts) |-> SubSeq(s, kth(starts, k), kth(ends, k))]

\* " ".join(words)
RECURSIVE join(_)
join(words) ==
    IF words = <<>> THEN <<>>
    ELSE IF Len(words) = 1 THEN words[1]
    ELSE words[1] \o <<" ">> \o join(Tail(words))

-----------------------------------------------------------------------------
(* Canvas draw commands *)

DrawString(x, y, s, font, size) ==
    [op |-> "drawString", x |-> x, y |-> y, text |-> s, font |-> font, size |-> size]
DrawCentredString(x, y, s, font, size) ==
    [op |-> "drawCentredString", x |-> x, y |-> y, text |-> s, font |-> font, size |-> size]
DrawRightString(x, y, s, font, size) ==
    [op |-> "drawRightString", x |-> x, y |-> y, text |-> s, font |-> font, size |-> size]
DrawImage(img, x, y, w) ==
    [op |-> "drawImage", x |-> x, y |-> y, image |-> img, width |-> w]

-----------------------------------------------------------------------------
(* wrap_text (lines 91-104) *)

\* the for loop of wrap_text over the words from position i on
RECURSIVE WrapLoop(_, _, _, _, _, _, _)
WrapLoop(words, i, line, x, y, mw, cmds) ==
    IF i > Len(words)
    THEN [cmds |-> IF line # <<>>
                   THEN Append(cmds, DrawString(x, y, line, "Helvetica", 12))
                   ELSE cmds,
          y |-> y]
    ELSE LET word == words[i]
             trial == strip(line \o <<" ">> \o word)
         IN IF stringWidth(trial, 12) <= mw
            THEN WrapLoop(words, i + 1, trial, x, y, mw, cmds)
            ELSE WrapLoop(words, i + 1, word, x, y - cm \div 2, mw,
                          Append(cmds, DrawString(x, y, line, "Helvetica", 12)))

\* a wrap that tests the width of the word, not of the candidate line
RECURSIVE WrapLoopWordOnly(_, _, _, _, _, _, _)
WrapLoopWordOnly(words, i, line, x, y, mw, cmds) ==
    IF i > Len(words)
    THEN [cmds |-> IF line # <<>>
                   THEN Append(cmds, DrawString(x, y, line, "Helvetica", 12))
                   ELSE cmds,
          y |-> y]
    ELSE LET word == words[i]
             trial == strip(line \o <<" ">> \o word)
         IN IF stringWidth(word, 12) <= mw
            THEN WrapLoopWordOnly(words, i + 1, trial, x, y, mw, cmds)
            ELSE WrapLoopWordOnly(words, i + 1, word, x, y - cm \div 2, mw,
                          Append(cmds, DrawString(x, y, line, "Helvetica", 12)))
wrap_text_word_only(t, x, y, mw) == WrapLoopWordOnly(split(t), 1, <<>>, x, y, mw, <<>>)

\* a wrap that forgets to move y down after a full line
RECURSIVE WrapLoopNoAdvance(_, _, _, _, _, _, _)
WrapLoopNoAdvance(words, i, line, x, y, mw, cmds) ==
    IF i > Len(words)
    THEN [cmds |-> IF line # <<>>
                   THEN Append(cmds, DrawString(x, y, line, "Helvetica", 12))
                   ELSE cmds,
          y |-> y]
    ELSE LET word == words[i]
             trial == strip(line \o <<" ">> \o word)
         IN IF stringWidth(trial, 12) <= mw
            THEN WrapLoopNoAdvance(words, i + 1, trial, x, y, mw, cmds)
            ELSE WrapLoopNoAdvance(words, i + 1, word, x, y, mw,
                          Append(cmds, DrawString(x, y, line, "Helvetica", 12)))
wrap_text_no_advance(t, x, y, mw) == WrapLoopNoAdvance(split(t), 1, <<>>, x, y, mw, <<>>)

wrap_text(t, x, y, mw) == WrapLoop(split(t), 1, <<>>, x, y, mw, <<>>)

-----------------------------------------------------------------------------
(* Python value formatting used by draw_certificate and main *)

Digit(n) == DigitChars[n + 1]
Pad2(n) == <<Digit((n \div 10) % 10), Digit(n % 10)>>
Pad4(n) == <<Digit((n \div 1000) % 10), Digit((n \div 100) % 10)>> \o Pad2(n)

\* str(n) for an integer n >= 0
RECURSIVE IntStr(_)
IntStr(n) == IF n < 10 THEN <<Digit(n)>> ELSE Append(IntStr(n \div 10), Digit(n % 10))

\* date.strftime('%d-%m-%Y')
strftime_dmY(d) == Pad2(d.day) \o <<"-">> \o Pad2(d.month) \o <<"-">> \o Pad4(d.year)

\* datetime.now().strftime("%d-%m-%Y %H:%M"), the clock counting seconds from
\* 01-01-2024 00:00:00 (within January 2024)
strftime_dmY_HM(now) ==
    strftime_dmY([day |-> 1 + now \div 86400, month |-> 1, year |-> 2024])
        \o <<" ">> \o Pad2((now \div 3600) % 24) \o <<":">> \o Pad2((now \div 60) % 60)

\* The float a = a.num / a.den (den a power of two, so the float is exact), in
\* hundredths, rounded as format(a, ".2f") rounds: to nearest, ties to even.
RoundCents(a) ==
    LET q == (100 * a.num) \div a.den
        r == (100 * a.num) % a.den
    IN IF 2 * r > a.den THEN q + 1
       ELSE IF 2 * r < a.den THEN q
       ELSE IF q % 2 = 0 THEN q ELSE q + 1

\* a format that drops trailing zeros, as str(float) does for 150.5
format_short(a) ==
    LET c == RoundCents(a)
    IN IntStr(c \div 100) \o <<".">> \o
       (IF c % 10 = 0 THEN <<Digit((c % 100) \div 10)>> ELSE Pad2(c % 100))

\* f"{a:.2f}"
format_2f(a) ==
    LET c == RoundCents(a)
    IN IntStr(c \div 100) \o <<".">> \o Pad2(c % 100)

-----------------------------------------------------------------------------
(* draw_certificate (lines 107-171) *)

Has(d, k) == k \in DOMAIN d

NoImage == [kind |-> "None"]
\* bool(x) of an Optional[BytesIO]: any BytesIO object is truthy
Truthy(img) == img.kind # "None"
\* ImageReader(img) raises when the decoded bytes are no image
ImageReaderRaises(img) == img.kind = "bytes"

Raised(cmds) == [cmds |-> cmds, raised |-> TRUE]
Returned(cmds) == [cmds |-> cmds, raised |-> FALSE]

\* lines 117-121: the displayed tip name
tip_display(c) ==
    LET t0 == strip(replace(IF Has(c, "tip_name") THEN c.tip_name ELSE <<>>, "_", " "))
        t1 == IF t0 = <<>> THEN <<"T","I","P">> ELSE t0
    IN IF ~startswith(lower(t1), <<"m","/","s">>)
       THEN <<"M","/","S","."," ">> \o t1
       ELSE t1

\* lines 123-127: the certification sentence (both dates present)
body_text(c) ==
    <<"I","t"," ","i","s"," ","t","o"," ","c","e","r","t","i","f","y"," ",
      "t","h","a","t"," ","t","h","e"," ","s","e","r","v","i","c","e","s"," ",
      "p","r","o","v","i","d","e","d"," ","b","y"," ">>
    \o tip_display(c)
    \o <<","," ","f","r","o","m"," ">> \o strftime_dmY(c.from_date)
    \o <<" ","t","o"," ">> \o strftime_dmY(c.to_date)
    \o <<" ","i","s"," ","s","a","t","i","s","f","a","c","t","o","r","y",".">>

\* a penalty text that prints the amount as str() would
penalty_text_short(c) ==
    <<"P","e","n","a","l","t","y",":"," ">> \o
    (IF ~c.penalty_yes THEN <<"N","I","L">>
     ELSE <<RUPEE>> \o format_short(c.penalty_amount))

\* lines 131 and 133: the penalty line (penalty_yes present, and the amount if it is read)
penalty_text(c) ==
    <<"P","e","n","a","l","t","y",":"," ">> \o
    (IF ~c.penalty_yes THEN <<"N","I","L">>
     ELSE <<RUPEE>> \o format_2f(c.penalty_amount))

\* a block width that takes the image width whether or not an image was drawn
bbm_block_w_image_only(c) == 4 * cm

\* line 157
bbm_block_w(c) ==
    IF Truthy(IF Has(c, "bbm_img") THEN c.bbm_img ELSE NoImage)
    THEN 4 * cm
    ELSE stringWidth(upper(c.bbm_name), 12)

\* lines 156-171: the Manager(MT) image
mt_commands(c, sig_y, mt) ==
    LET gap == 2 * cm
        mt_x == 4 * cm + bbm_block_w(c) + gap
        draw_w == 4 * cm
        draw_h == (draw_w * mt.ih) \div mt.iw
        img_y == sig_y - draw_h - 4 * cm
    IN <<DrawImage(mt, mt_x, img_y, 4 * cm)>>

\* lines 135-171, from the BBM signature on
signatures(c, top_cm, ts, mt, sofar, new_y) ==
    LET sig_y == new_y - 5 * cm
        img == IF Has(c, "bbm_img") THEN c.bbm_img ELSE NoImage
    IN IF Truthy(img) /\ ImageReaderRaises(img) THEN Raised(sofar)
       ELSE LET s4 == IF Truthy(img)
                      THEN Append(sofar, DrawImage(img, 2 * cm, sig_y, 4 * cm))
                      ELSE sofar
            IN IF ~Has(c, "bbm_name") THEN Raised(s4)
               ELSE LET s5 == s4 \o
                           <<DrawString(2 * cm, sig_y - 6 * (cm \div 10),
                                        upper(c.bbm_name), "Helvetica", 12),
                             DrawString(2 * cm, sig_y - 12 * (cm \div 10),
                                        <<"G","e","n","e","r","a","t","e","d",":"," ">> \o ts,
                                        "Helvetica-Oblique", 9)>>
                    IN IF ~Truthy(mt) THEN Returned(s5)
                       ELSE IF ImageReaderRaises(mt) THEN Raised(s5)
                       ELSE Returned(s5 \o mt_commands(c, sig_y, mt))

\* draw_certificate(c, cert, top_cm, gen_ts): the commands it puts on the canvas,
\* and whether it raised before reaching its end
draw_certificate(c, top_cm, ts, mt) ==
    LET s1 == <<DrawCentredString(A4_W \div 2, top_cm * cm,
                    <<"Q","o","S"," ","C","e","r","t","i","f","i","c","a","t","e">>,
                    "Helvetica-Bold", 16),
                DrawRightString(A4_W - 2 * cm, top_cm * cm, ts, "Helvetica", 10)>>
    IN IF ~Has(c, "from_date") \/ ~Has(c, "to_date") THEN Raised(s1)
       ELSE LET w == wrap_text(body_text(c), 2 * cm, (2 * top_cm - 3) * (cm \div 2),
                               A4_W - 4 * cm)
                s2 == s1 \o w.cmds
                new_y == w.y
            IN IF ~Has(c, "penalty_yes") \/ (c.penalty_yes /\ ~Has(c, "penalty_amount"))
               THEN Raised(s2)
               ELSE signatures(c, top_cm, ts, mt,
                        Append(s2, DrawString(2 * cm, new_y - 1 * cm, penalty_text(c),
                                              "Helvetica", 12)),
                        new_y)

-----------------------------------------------------------------------------
(* Specification SpecLayout: wrap_text applied to bounded paragraphs and     *)
(* draw_certificate applied to bounded records                              *)

MaxTextLen == 5
MaxTipLines == 3
\* about as many words "WIDE" as fill one body line
WordsPerLine == 7 * 2
WrapAlphabet == {"i", "m", " "}
WrapWidths == {381 * 200, 381 * 722, 381 * 1000, 381 * 1500}
WrapX == 2 * cm
WrapY0 == 51 * (cm \div 2)
TopCm == 27

RECURSIVE SeqsUpTo(_, _)
SeqsUpTo(S, n) ==
    IF n = 0 THEN {<<>>}
    ELSE LET shorter == SeqsUpTo(S, n - 1)
         IN shorter \cup {Append(s, c) : s \in {q \in shorter : Len(q) = n - 1}, c \in S}

RECURSIVE Repeat(_, _)
Repeat(s, n) == IF n = 0 THEN <<>> ELSE s \o Repeat(s, n - 1)

TipNames ==
    { <<"a","c","m","e","_","t","r","a","d","e","r","s">>,
      <<"M","/","s"," ","A","c","m","e">>,
      <<"M","/","S","."," ","A","c","m","e">>,
      <<"m","/","s","h","a","r","m","a">>,
      <<"m","/","s">>,
      <<"_","A","c","m","e","_">>,
      <<"_">>,
      <<>> }
    \cup { Repeat(<<"W","I","D","E","_">>, WordsPerLine * n) \o <<"c","o">> : n \in 1..MaxTipLines }

Amounts == { [num |-> n, den |-> 8] : n \in {0, 1, 3, 7, 79, 1204} }
Dates == { [day |-> 1, month |-> 1, year |-> 2024], [day |-> 31, month |-> 12, year |-> 987] }
BbmNames == { <<"R","a","v","i">>, <<"R","a","v","i"," ","K","u","m","a","r">> }
BbmImages == { NoImage, [kind |-> "image"], [kind |-> "bytes"] }
MtImages == { NoImage, [kind |-> "image", iw |-> 300, ih |-> 100], [kind |-> "bytes"] }

\* a record as main builds it (lines 214-223)
Cert(t, f, u, p, a, b, i) ==
    [tip_name |-> t, from_date |-> f, to_date |-> u, penalty_yes |-> p,
     penalty_amount |-> a, bbm_name |-> b, mt_name |-> <<"M","T">>, bbm_img |-> i]
PlainCert ==
    Cert(<<"A","c","m","e">>, [day |-> 1, month |-> 1, year |-> 2024],
         [day |-> 31, month |-> 1, year |-> 2024], FALSE, [num |-> 0, den |-> 1],
         <<"R","a","v","i">>, NoImage)
Without(c, k) == [f \in DOMAIN c \ {k} |-> c[f]]
\* the records laid out: every tip name with every signature, every penalty with
\* every pair of dates, and records lacking one key
LayoutCerts ==
    { [PlainCert EXCEPT !.tip_name = t, !.bbm_name = b, !.bbm_img = i] :
        t \in TipNames, b \in BbmNames, i \in BbmImages }
    \cup { [PlainCert EXCEPT !.from_date = f, !.to_date = u, !.penalty_yes = p,
                             !.penalty_amount = a] :
        f \in Dates, u \in Dates, p \in BOOLEAN, a \in Amounts }
    \cup { Without(PlainCert, k) :
        k \in {"tip_name", "from_date", "to_date", "penalty_yes", "penalty_amount",
               "bbm_name", "bbm_img"} }

Idle ==
    /\ records = <<>> /\ clock = 0 /\ idx = 0 /\ c_code = <<>> /\ c_pages = <<>>
    /\ pdf_data = <<>> /\ session_state = EmptyDict /\ msg = None /\ downloads = 0

InitLayout ==
    /\ Idle
    /\ wrapped = None
    /\ page = None
    /\ gen_ts = strftime_dmY_HM(0)
    /\ \/ /\ pc = "call wrap_text"
          /\ text \in SeqsUpTo(WrapAlphabet, MaxTextLen)
          /\ max_w \in WrapWidths
          /\ cert = None
          /\ MT_IMG = NoImage
       \/ /\ pc = "call draw_certificate"
          /\ text = <<>>
          /\ max_w = A4_W - 4 * cm
          /\ cert \in LayoutCerts
          /\ MT_IMG \in MtImages

Wrap ==
    /\ pc = "call wrap_text"
    /\ wrapped' = wrap_text(text, WrapX, WrapY0, max_w)
    /\ pc' = "wrap_text returned"
    /\ UNCHANGED <<text, max_w, cert, page, records, MT_IMG, clock, gen_ts, idx,
                   c_code, c_pages, pdf_data, session_state, msg, downloads>>

Layout ==
    /\ pc = "call draw_certificate"
    /\ page' = draw_certificate(cert, TopCm, gen_ts, MT_IMG)
    /\ pc' = "draw_certificate ended"
    /\ UNCHANGED <<text, max_w, wrapped, cert, records, MT_IMG, clock, gen_ts, idx,
                   c_code, c_pages, pdf_data, session_state, msg, downloads>>

NextLayout == Wrap \/ Layout

SpecLayout == InitLayout /\ [][NextLayout]_vars

\* the lines wrap_text emitted, in order
WrapLines == [i \in DOMAIN wrapped.cmds |-> wrapped.cmds[i].text]

\* C1: every line wrap_text emits is at most max_w wide, unless the line is
\* exactly one token (a token wider than max_w stands alone on its line).
C1_WrapCorrectness ==
    pc = "wrap_text returned" =>
        \A i \in DOMAIN WrapLines :
            \/ stringWidth(WrapLines[i], 12) <= max_w
            \/ Len(split(WrapLines[i])) = 1

\* a run where one token overflows alone and another line holds two tokens
C1_Witness ==
    /\ pc = "wrap_text returned"
    /\ \E i \in DOMAIN WrapLines :
          stringWidth(WrapLines[i], 12) > max_w /\ Len(split(WrapLines[i])) = 1
    /\ \E i \in DOMAIN WrapLines : Len(split(WrapLines[i])) = 2

\* C2: joining the emitted lines with single spaces gives back the
\* whitespace-normalised paragraph, no empty line is emitted, and an empty
\* paragraph gives no line.
C2_WrapTotality ==
    pc = "wrap_text returned" =>
        /\ join(WrapLines) = join(split(text))
        /\ \A i \in DOMAIN WrapLines : WrapLines[i] # <<>>
        /\ (split(text) = <<>> => WrapLines = <<>>)

-----------------------------------------------------------------------------
(* Specification Spec: the "Finish & Download PDF" handler of main (lines     *)
(* 233-245) run on a bounded list of records, step by step, the clock         *)
(* advancing while it runs                                                    *)

MaxRecords == 2
MaxClock == 90
TickSeconds == 30

AssemblyCerts ==
    { [PlainCert EXCEPT !.bbm_img = i] : i \in BbmImages }
    \cup { Without(PlainCert, "from_date"),
           [PlainCert EXCEPT !.tip_name = <<"m","/","s"," ","Z","e","d">>,
                             !.bbm_name = <<"R","a","v","i"," ","K","u","m","a","r">>,
                             !.penalty_yes = TRUE,
                             !.penalty_amount = [num |-> 1204, den |-> 8]] }

Init ==
    /\ pc = "start"
    /\ records \in SeqsUpTo(AssemblyCerts, MaxRecords)
    /\ MT_IMG \in MtImages
    /\ clock \in {0, TickSeconds}
    /\ gen_ts = None /\ idx = 0 /\ c_code = <<>> /\ c_pages = <<>> /\ pdf_data = <<>>
    /\ text = <<>> /\ max_w = 0 /\ wrapped = None /\ cert = None /\ page = None
    /\ session_state = EmptyDict /\ msg = None /\ downloads = 0

\* the clock moves on while the handler runs
Tick ==
    /\ pc \in {"start", "loop", "drawn"}
    /\ clock < MaxClock
    /\ clock' = clock + TickSeconds
    /\ UNCHANGED <<pc, text, max_w, wrapped, cert, page, records, MT_IMG, gen_ts, idx,
                   c_code, c_pages, pdf_data, session_state, msg, downloads>>

\* lines 233-237: a fresh canvas, and the one reading of the clock
Begin ==
    /\ pc = "start"
    /\ c_code' = <<>>
    /\ c_pages' = <<>>
    /\ gen_ts' = strftime_dmY_HM(clock)
    /\ idx' = 0
    /\ pc' = "loop"
    /\ UNCHANGED <<text, max_w, wrapped, cert, page, records, MT_IMG, clock,
                   pdf_data, session_state, msg, downloads>>

\* a loop body that stamps the page with the time it is drawn at
DrawPageStampingNow ==
    /\ pc = "loop"
    /\ idx < Len(records)
    /\ LET r == draw_certificate(records[idx + 1], TopCm, strftime_dmY_HM(clock), MT_IMG)
       IN /\ c_code' = c_code \o r.cmds
          /\ pc' = IF r.raised THEN "raised" ELSE "drawn"
    /\ idx' = idx + 1
    /\ UNCHANGED <<text, max_w, wrapped, cert, page, records, MT_IMG, clock, gen_ts,
                   c_pages, pdf_data, session_state, msg, downloads>>

\* a loop body that swallows an exception of draw_certificate and goes on
DrawPageSwallowingErrors ==
    /\ pc = "loop"
    /\ idx < Len(records)
    /\ c_code' = c_code \o draw_certificate(records[idx + 1], TopCm, gen_ts, MT_IMG).cmds
    /\ pc' = "drawn"
    /\ idx' = idx + 1
    /\ UNCHANGED <<text, max_w, wrapped, cert, page, records, MT_IMG, clock, gen_ts,
                   c_pages, pdf_data, session_state, msg, downloads>>

\* line 240: draw_certificate(c, cert, 27, gen_ts) for the next record; an
\* exception leaves main with what was drawn still on the canvas's open page
DrawPage ==
    /\ pc = "loop"
    /\ idx < Len(records)
    /\ LET r == draw_certificate(records[idx + 1], TopCm, gen_ts, MT_IMG)
       IN /\ c_code' = c_code \o r.cmds
          /\ pc' = IF r.raised THEN "raised" ELSE "drawn"
    /\ idx' = idx + 1
    /\ UNCHANGED <<text, max_w, wrapped, cert, page, records, MT_IMG, clock, gen_ts,
                   c_pages, pdf_data, session_state, msg, downloads>>

\* a loop that goes on to the next record without ending the page
ShowPageSkipped ==
    /\ pc = "drawn"
    /\ pc' = "loop"
    /\ UNCHANGED <<text, max_w, wrapped, cert, page, records, MT_IMG, clock, gen_ts,
                   idx, c_code, c_pages, pdf_data, session_state, msg, downloads>>

\* line 241: c.showPage() ends the open page
ShowPage ==
    /\ pc = "drawn"
    /\ c_pages' = Append(c_pages, c_code)
    /\ c_code' = <<>>
    /\ pc' = "loop"
    /\ UNCHANGED <<text, max_w, wrapped, cert, page, records, MT_IMG, clock, gen_ts,
                   idx, pdf_data, session_state, msg, downloads>>

\* Canvas.save(): an open page that holds commands is ended first
SavedPages(code, pages) == IF code # <<>> THEN Append(pages, code) ELSE pages

\* lines 243-244: c.save(); pdf_data = buffer.getvalue()
Save ==
    /\ pc = "loop"
    /\ idx = Len(records)
    /\ pdf_data' = <<SavedPages(c_code, c_pages)>>
    /\ pc' = "saved"
    /\ UNCHANGED <<text, max_w, wrapped, cert, page, records, MT_IMG, clock, gen_ts,
                   idx, c_code, c_pages, session_state, msg, downloads>>

Next == Tick \/ Begin \/ DrawPage \/ ShowPage \/ Save

Spec == Init /\ [][Next]_vars

-----------------------------------------------------------------------------
(* load_roster (lines 52-85) on a bounded roster file *)

MaxTips == 2

\* PIN_MAP (lines 31-35)
PIN_MAP ==
    Put(Put(Put(EmptyDict,
        <<"9","8","9","1","0","5","5","4","4","3">>, "3848"),
        <<"9","4","9","3","4","3","2","3","3","3">>, "3667"),
        <<"9","4","4","1","1","3","1","1","0","8">>, "2675")

\* the rows of bbm_data.csv: a BBM with MaxTips tips and no pin column value, a
\* BBM whose tip is listed twice, and a row whose mobile is no number
RosterRows ==
    [k \in 1..MaxTips |->
        [mobile |-> <<"9","8","9","1","0","5","5","4","4","3">>,
         bbm_name |-> <<"R","a","v","i">>, tip_name |-> <<"t","i","p","_", Digit(k)>>,
         mt_name |-> <<>>, pin |-> ""]]
    \o << [mobile |-> <<" ","0","7","0","0">>, bbm_name |-> <<"A","s","h","a">>,
           tip_name |-> <<"d","u","p">>, mt_name |-> <<"M","T">>, pin |-> "1234"],
          [mobile |-> <<"x","7">>, bbm_name |-> <<"N","o">>,
           tip_name |-> <<"n","o">>, mt_name |-> <<"M","T">>, pin |-> "1"],
          [mobile |-> <<"7","0","0">>, bbm_name |-> <<"A","s","h","a">>,
           tip_name |-> <<"d","u","p">>, mt_name |-> <<"M","T">>, pin |-> "1234"] >>

\* str(int(float(raw))) of a string of digits: the leading zeros go
RECURSIVE NoLeadingZeros(_)
NoLeadingZeros(s) == IF Len(s) > 1 /\ Head(s) = "0" THEN NoLeadingZeros(Tail(s)) ELSE s

RECURSIVE LoadRows(_, _, _)
LoadRows(rows, i, users) ==
    IF i > Len(rows) THEN users
    ELSE LET row == rows[i]
             raw_mobile == strip(row.mobile)
         IN IF raw_mobile = <<>> \/ raw_mobile[1] \notin Range(DigitChars)
            THEN LoadRows(rows, i + 1, users)
            ELSE LET mobile == NoLeadingZeros(raw_mobile)
                     mt_name == IF strip(row.mt_name) = <<>>
                                THEN <<"M","a","n","a","g","e","r","(","M","T",")">>
                                ELSE strip(row.mt_name)
                     pin == IF row.pin # "" THEN row.pin
                            ELSE IF mobile \in DOMAIN PIN_MAP THEN PIN_MAP[mobile]
                            ELSE "0000"
                     u == IF mobile \in DOMAIN users THEN users[mobile]
                          ELSE [name |-> strip(row.bbm_name), pin |-> pin,
                                mt_name |-> mt_name, tips |-> <<>>]
                 IN LoadRows(rows, i + 1,
                        Put(users, mobile,
                            [u EXCEPT !.tips = Append(u.tips, strip(row.tip_name))]))

load_roster == LoadRows(RosterRows, 1, EmptyDict)
ROSTER == load_roster

-----------------------------------------------------------------------------
(* Specification SpecSession: main() (lines 175-260), one action per script   *)
(* run that a button click starts                                             *)

MaxDownloads == 2

LoggedIn == "logged_in" \in DOMAIN session_state /\ session_state.logged_in
\* st.session_state.get("certs", [])
Certs == IF "certs" \in DOMAIN session_state THEN session_state.certs ELSE <<>>

\* list.remove(x): drop the first occurrence
RemoveFirst(s, x) ==
    LET i == CHOOSE j \in DOMAIN s : s[j] = x /\ \A k \in 1..(j - 1) : s[k] # x
    IN SubSeq(s, 1, i - 1) \o SubSeq(s, i + 1, Len(s))

\* lines 239-241: the pages of the records in order, up to a record that raises
RECURSIVE AssembleFrom(_, _, _, _, _)
AssembleFrom(certs, i, ts, mt, pages) ==
    IF i > Len(certs) THEN [pages |-> pages, raised |-> FALSE]
    ELSE LET r == draw_certificate(certs[i], TopCm, ts, mt)
         IN IF r.raised THEN [pages |-> pages, raised |-> TRUE]
            ELSE AssembleFrom(certs, i + 1, ts, mt, Append(pages, r.cmds))

InitSession ==
    /\ pc = "session"
    /\ session_state = Put(EmptyDict, "logged_in", FALSE)
    /\ MT_IMG \in {NoImage, [kind |-> "image", iw |-> 300, ih |-> 100]}
    /\ msg = None
    /\ downloads = 0
    /\ clock = 0
    /\ records = <<>> /\ gen_ts = None /\ idx = 0 /\ c_code = <<>> /\ c_pages = <<>>
    /\ pdf_data = <<>>
    /\ text = <<>> /\ max_w = 0 /\ wrapped = None /\ cert = None /\ page = None

SessionFrame ==
    UNCHANGED <<pc, text, max_w, wrapped, cert, page, records, MT_IMG, clock, gen_ts,
                idx, c_code, c_pages, pdf_data>>

\* the files under signatures/ as load_b64_image may find them: none, or bytes
\* that decode from base64 but are no image
SignatureFiles == { NoImage, [kind |-> "bytes"] }

\* lines 182-196: the Login button
Login(mobile_in, pin_in) ==
    /\ ~LoggedIn
    /\ downloads < MaxDownloads
    /\ LET m == strip(mobile_in)
       IN IF m \in DOMAIN ROSTER /\ pin_in = ROSTER[m].pin
          THEN /\ session_state' =
                    Put(Put(Put(Put(Put(session_state, "logged_in", FALSE),
                        "logged_in", TRUE), "user", ROSTER[m]), "mobile", m),
                        "todo_tips", ROSTER[m].tips)
               /\ msg' = None
          ELSE /\ session_state' = Put(session_state, "logged_in", FALSE)
               /\ msg' = "Invalid mobile or PIN"
    /\ UNCHANGED downloads
    /\ SessionFrame

\* lines 212-228: the "Add certificate" button, disabled when no tip is left
AddCertificate(tip, from_dt, to_dt, pen_yes, pen_amt, img) ==
    /\ LoggedIn
    /\ session_state.todo_tips # <<>>
    /\ tip \in Range(session_state.todo_tips)
    /\ LET user == session_state.user
           c == [tip_name |-> tip, from_date |-> from_dt, to_date |-> to_dt,
                 penalty_yes |-> pen_yes, penalty_amount |-> pen_amt,
                 bbm_name |-> user.name, mt_name |-> user.mt_name, bbm_img |-> img]
       IN session_state' =
             Put(Put(session_state, "certs", Append(Certs, c)),
                 "todo_tips", RemoveFirst(session_state.todo_tips, tip))
    /\ msg' = None
    /\ UNCHANGED downloads
    /\ SessionFrame

\* lines 231-255: the "Finish & Download PDF" button, shown when no tip is left
FinishDownload ==
    /\ LoggedIn
    /\ "todo_tips" \in DOMAIN session_state
    /\ session_state.todo_tips = <<>>
    /\ LET doc == AssembleFrom(Certs, 1, strftime_dmY_HM(clock), MT_IMG, <<>>)
       IN IF doc.raised
          THEN /\ msg' = "exception"
               /\ UNCHANGED <<session_state, downloads, pdf_data>>
          ELSE /\ pdf_data' = <<SavedPages(<<>>, doc.pages)>>
               /\ downloads' = downloads + 1
               /\ session_state' = EmptyDict
               /\ msg' = None
    /\ UNCHANGED <<pc, text, max_w, wrapped, cert, page, records, MT_IMG, clock, gen_ts,
                   idx, c_code, c_pages>>

\* a logout that only drops the login flag
LogoutKeepingCerts ==
    /\ LoggedIn
    /\ session_state' = Put(session_state, "logged_in", FALSE)
    /\ msg' = None
    /\ UNCHANGED downloads
    /\ SessionFrame

\* lines 258-260: the Logout button
Logout ==
    /\ LoggedIn
    /\ session_state' = Put(EmptyDict, "logged_in", FALSE)
    /\ msg' = None
    /\ UNCHANGED downloads
    /\ SessionFrame

MobilesTyped == { <<"9","8","9","1","0","5","5","4","4","3">>, <<"7","0","0"," ">>, <<"7">> }
PinsTyped == { "3848", "1234" }
FormDate == [day |-> 1, month |-> 1, year |-> 2024]
\* the penalty inputs left at their defaults: "No", and pen_amt 0.0 (lines 207-210)
PenaltiesChosen == { <<FALSE, [num |-> 0, den |-> 1]>> }

NextSession ==
    \/ \E m \in MobilesTyped, p \in PinsTyped : Login(m, p)
    \/ \E t \in { r.tip_name : r \in Range(RosterRows) }, pen \in PenaltiesChosen, i \in SignatureFiles :
          AddCertificate(strip(t), FormDate, FormDate, pen[1], pen[2], i)
    \/ FinishDownload
    \/ Logout

SpecSession == InitSession /\ [][NextSession]_vars

-----------------------------------------------------------------------------
(* Reading a laid-out page: title, timestamp, body lines, penalty line,      *)
(* [BBM image], BBM name, "Generated:" line, [MT image], in drawing order    *)

MtIdxOf(cmds) == IF cmds[Len(cmds)].op = "drawImage" THEN Len(cmds) ELSE 0
GenIdxOf(cmds) == IF MtIdxOf(cmds) = 0 THEN Len(cmds) ELSE Len(cmds) - 1
NameIdxOf(cmds) == GenIdxOf(cmds) - 1
BbmImgIdxOf(cmds) == IF cmds[NameIdxOf(cmds) - 1].op = "drawImage" THEN NameIdxOf(cmds) - 1 ELSE 0
PenaltyIdxOf(cmds) == IF BbmImgIdxOf(cmds) = 0 THEN NameIdxOf(cmds) - 1 ELSE NameIdxOf(cmds) - 2

PageDone == pc = "draw_certificate ended" /\ ~page.raised
Cmds == page.cmds
MtIdx == MtIdxOf(Cmds)
GenIdx == GenIdxOf(Cmds)
NameIdx == NameIdxOf(Cmds)
BbmImgIdx == BbmImgIdxOf(Cmds)
PenaltyIdx == PenaltyIdxOf(Cmds)
BodyLines == [k \in 1..(PenaltyIdx - 3) |-> Cmds[k + 2].text]

IsDigits(s) == \A i \in DOMAIN s : s[i] \in Range(DigitChars)
RECURSIVE DigitsVal(_)
DigitsVal(s) ==
    IF s = <<>> THEN 0
    ELSE 10 * DigitsVal(SubSeq(s, 1, Len(s) - 1)) + (IndexOf(DigitChars, s[Len(s)]) - 1)

PenaltyPrefix == <<"P","e","n","a","l","t","y",":"," ">>
\* what follows "Penalty: " and the currency sign
PenaltyFigure == SubSeq(Cmds[PenaltyIdx].text, Len(PenaltyPrefix) + 2, Len(Cmds[PenaltyIdx].text))

\* C7: with penalty_yes false the penalty line is exactly "Penalty: NIL" whatever
\* the amount; with penalty_yes true it is "Penalty: " and the currency sign and
\* the amount with exactly two decimals (150.5 gives 150.50).
C7_PenaltyText ==
    PageDone =>
        LET t == Cmds[PenaltyIdx].text
            f == PenaltyFigure
            whole == SubSeq(f, 1, Len(f) - 3)
            frac == SubSeq(f, Len(f) - 1, Len(f))
            cents == 100 * DigitsVal(whole) + DigitsVal(frac)
            a == cert.penalty_amount
        IN /\ Cmds[PenaltyIdx].op = "drawString"
           /\ ~cert.penalty_yes => t = PenaltyPrefix \o <<"N","I","L">>
           /\ cert.penalty_yes =>
                /\ startswith(t, Append(PenaltyPrefix, RUPEE))
                /\ Len(f) >= 4
                /\ f[Len(f) - 2] = "."
                /\ IsDigits(whole) /\ IsDigits(frac)
                /\ (Len(whole) > 1 => whole[1] # "0")
                \* the figure is the amount, to the nearest hundredth
                /\ 2 * (cents * a.den - 100 * a.num) <= a.den
                /\ 2 * (100 * a.num - cents * a.den) <= a.den
                /\ (a.num = 1204 /\ a.den = 8 => f = <<"1","5","0",".","5","0">>)

\* a page with a penalty of 150.5
C7_Witness ==
    /\ PageDone
    /\ cert.penalty_yes
    /\ cert.penalty_amount = [num |-> 1204, den |-> 8]
    /\ Cmds[PenaltyIdx].text = Append(PenaltyPrefix, RUPEE) \o <<"1","5","0",".","5","0">>

\* the tip name as the claim normalises it: the honorific is recognised as a
\* token ("m/s" at the end of the name or followed by a blank or a dot)
ClaimedTipName(raw) ==
    LET t0 == strip(replace(raw, "_", " "))
        t1 == IF t0 = <<>> THEN <<"T","I","P">> ELSE t0
        isTok == /\ startswith(lower(t1), <<"m","/","s">>)
                 /\ (Len(t1) = 3 \/ t1[4] \in {" ", "."})
    IN IF ~isTok THEN <<"M","/","S","."," ">> \o t1 ELSE t1

\* C8: the displayed tip name is the input with underscores turned to blanks and
\* trimmed, the placeholder if empty, and "M/S. " prepended exactly when it does
\* not begin with the honorific token; "m/sharma" gets the honorific.
C8_HonorificNormalization ==
    PageDone /\ Has(cert, "tip_name") =>
        join(BodyLines) =
            <<"I","t"," ","i","s"," ","t","o"," ","c","e","r","t","i","f","y"," ",
              "t","h","a","t"," ","t","h","e"," ","s","e","r","v","i","c","e","s"," ",
              "p","r","o","v","i","d","e","d"," ","b","y"," ">>
            \o ClaimedTipName(cert.tip_name)
            \o <<","," ","f","r","o","m"," ">> \o strftime_dmY(cert.from_date)
            \o <<" ","t","o"," ">> \o strftime_dmY(cert.to_date)
            \o <<" ","i","s"," ","s","a","t","i","s","f","a","c","t","o","r","y",".">>

LineHeight == cm \div 2

\* C9: the body starts at T - 1.5 cm and each further body line is one line
\* height lower; bodyEndY is the y of the last body line; the penalty line is at
\* bodyEndY - 1 cm and the signature row at bodyEndY - 5 cm; so title/timestamp >
\* every body line > penalty > signature row > issuer name > "Generated:" line,
\* strictly, and no two body lines share a y.  The same spacing holds for
\* wrap_text alone, also when the first token is wider than max_w.
C9_VerticalLayout ==
    /\ pc = "wrap_text returned" =>
          LET n == Len(wrapped.cmds)
          IN /\ \A k \in 1..n : wrapped.cmds[k].y = WrapY0 - (k - 1) * LineHeight
             /\ wrapped.y = IF n = 0 THEN WrapY0 ELSE wrapped.cmds[n].y
             /\ \A j, k \in 1..n : j # k => wrapped.cmds[j].y # wrapped.cmds[k].y
    /\ PageDone =>
          LET T == TopCm * cm
              n == Len(BodyLines)
              bodyEndY == Cmds[PenaltyIdx - 1].y
              sigY == bodyEndY - 5 * cm
          IN /\ Cmds[1].op = "drawCentredString" /\ Cmds[1].y = T
             /\ Cmds[2].op = "drawRightString" /\ Cmds[2].y = T
             /\ n >= 1
             /\ \A k \in 1..n : Cmds[k + 2].y = T - 3 * LineHeight - (k - 1) * LineHeight
             /\ Cmds[PenaltyIdx].y = bodyEndY - 1 * cm
             /\ BbmImgIdx # 0 => Cmds[BbmImgIdx].y = sigY
             /\ Cmds[NameIdx].y < sigY
             /\ Cmds[GenIdx].y < Cmds[NameIdx].y
             /\ \A k \in 1..n : Cmds[k + 2].y < T
             /\ \A j, k \in 1..n : j < k => Cmds[k + 2].y < Cmds[j + 2].y
             /\ Cmds[PenaltyIdx].y < bodyEndY
             /\ sigY < Cmds[PenaltyIdx].y
             /\ Cmds[NameIdx].text = upper(cert.bbm_name)
             /\ startswith(Cmds[GenIdx].text, <<"G","e","n","e","r","a","t","e","d",":"," ">>)

\* a page of at least three body lines with the BBM image drawn
C9_Witness ==
    /\ PageDone
    /\ Len(BodyLines) >= 3
    /\ BbmImgIdx # 0


-----------------------------------------------------------------------------
(* Claims about the PDF loop *)

\* every timestamp the clock can give within the bounds
Stamps == { strftime_dmY_HM(t) : t \in 0..(MaxClock + TickSeconds) }
\* the page draw_certificate gives for each record, MT image and timestamp
LayoutTable ==
    { <<c, m, t, draw_certificate(c, TopCm, t, m)>> :
        c \in AssemblyCerts, m \in MtImages, t \in Stamps }
LayoutOf(c, m, t) == (CHOOSE e \in LayoutTable : e[1] = c /\ e[2] = m /\ e[3] = t)[4]

GeneratedPrefix == <<"G","e","n","e","r","a","t","e","d",":"," ">>
\* a fully drawn page carries ts in the title row and in the signature block
Stamped(p, ts) ==
    /\ p[2].op = "drawRightString" /\ p[2].text = ts
    /\ p[GenIdxOf(p)].op = "drawString" /\ p[GenIdxOf(p)].text = GeneratedPrefix \o ts
AllStamped ==
    /\ \A i \in DOMAIN c_pages : Stamped(c_pages[i], gen_ts)
    /\ pc = "drawn" => Stamped(c_code, gen_ts)
    /\ pc = "saved" => \A i \in DOMAIN pdf_data[1] : Stamped(pdf_data[1][i], gen_ts)

\* C4: gen_ts is read from the clock once, when the handler starts and before any
\* page is drawn, and never changes afterwards; every page carries that value in
\* the title row and in the signature block, however far the clock has moved.
C4_SharedTimestamp ==
    [][ /\ pc = "start" /\ pc' # "start" => gen_ts' = strftime_dmY_HM(clock)
        /\ pc # "start" => gen_ts' = gen_ts
        /\ AllStamped' ]_vars

\* two pages saved after the clock has moved into another minute
C4_Witness ==
    /\ pc = "saved"
    /\ Len(pdf_data[1]) >= 2
    /\ strftime_dmY_HM(clock) # gen_ts
    /\ \A i \in DOMAIN pdf_data[1] : Stamped(pdf_data[1][i], gen_ts)

\* C5 as claimed: a record whose layout fails leaves none of its draw commands
\* behind: nothing of it is on the canvas, and no ended page is partial.
C5_PageAtomicity ==
    /\ pc = "raised" => c_code = <<>>
    /\ \A i \in DOMAIN c_pages : ~LayoutOf(records[i], MT_IMG, gen_ts).raised

\* C5 as amended: the commands drawn before the failure stay on the canvas's open
\* page, but that page is never ended and the document is never saved: every
\* ended page and every saved document holds fully laid-out pages only.
C5_EndedPagesComplete ==
    /\ pc \in {"loop", "drawn", "raised", "saved"} =>
          \A i \in DOMAIN c_pages :
              /\ ~LayoutOf(records[i], MT_IMG, gen_ts).raised
              /\ c_pages[i] = LayoutOf(records[i], MT_IMG, gen_ts).cmds
    /\ pc = "raised" =>
          /\ LayoutOf(records[idx], MT_IMG, gen_ts).raised
          /\ c_code = LayoutOf(records[idx], MT_IMG, gen_ts).cmds
          /\ Len(c_pages) = idx - 1
          /\ pdf_data = <<>>
    /\ pc = "saved" =>
          /\ pdf_data[1] = c_pages
          /\ \A i \in DOMAIN records : ~LayoutOf(records[i], MT_IMG, gen_ts).raised

\* the second record failed after the first page was ended
C5_Witness ==
    /\ pc = "raised"
    /\ idx = 2
    /\ Len(c_pages) = 1
    /\ c_code # <<>>

\* the issuer block width as the page shows it
IssuerBlockWidth(p) ==
    IF BbmImgIdxOf(p) # 0 THEN p[BbmImgIdxOf(p)].width
    ELSE stringWidth(p[NameIdxOf(p)].text, 12)

\* C6: on every page with the MT image its x is 4 cm + issuer block width + 2 cm,
\* the block width being the 4 cm image width if the BBM image was drawn and else
\* the width of the upper-cased BBM name; it lies right of the block, which
\* starts at 2 cm; and of two pages, one with and one without the BBM image, the
\* x differs.
C6_CounterSignaturePlacement ==
    pc \in {"loop", "drawn", "raised", "saved"} =>
        /\ \A i \in DOMAIN c_pages :
              LET p == c_pages[i]
              IN MtIdxOf(p) # 0 =>
                   /\ p[NameIdxOf(p)].text = upper(records[i].bbm_name)
                   /\ p[NameIdxOf(p)].x = 2 * cm
                   /\ BbmImgIdxOf(p) # 0 =>
                        p[BbmImgIdxOf(p)].x = 2 * cm /\ p[BbmImgIdxOf(p)].width = 4 * cm
                   /\ (BbmImgIdxOf(p) # 0) <=> (records[i].bbm_img.kind = "image")
                   /\ p[MtIdxOf(p)].x = 4 * cm + IssuerBlockWidth(p) + 2 * cm
                   /\ p[MtIdxOf(p)].x > 2 * cm + IssuerBlockWidth(p)
        /\ \A i, j \in DOMAIN c_pages :
              LET p == c_pages[i]
                  q == c_pages[j]
              IN MtIdxOf(p) # 0 /\ BbmImgIdxOf(p) # 0 /\ BbmImgIdxOf(q) = 0 =>
                   p[MtIdxOf(p)].x # q[MtIdxOf(q)].x

\* two ended pages with the MT image, the first with the BBM image, the second without
C6_Witness ==
    /\ Len(c_pages) = 2
    /\ MtIdxOf(c_pages[1]) # 0 /\ MtIdxOf(c_pages[2]) # 0
    /\ BbmImgIdxOf(c_pages[1]) # 0 /\ BbmImgIdxOf(c_pages[2]) = 0
    /\ c_pages[1][MtIdxOf(c_pages[1])].x # c_pages[2][MtIdxOf(c_pages[2])].x

-----------------------------------------------------------------------------
(* Claims about the session workflow *)

Count(seq, x) == Cardinality({i \in DOMAIN seq : seq[i] = x})
\* while logged in, the certificates added and the tips still to do make up the
\* user's roster entries; when not logged in, no certificate is kept
SessionBalanced ==
    /\ LoggedIn =>
          LET tips == ROSTER[session_state.mobile].tips
              todo == session_state.todo_tips
          IN /\ session_state.user = ROSTER[session_state.mobile]
             /\ Len(Certs) + Len(todo) = Len(tips)
             /\ \A t \in Range(tips) :
                   Count([i \in DOMAIN Certs |-> Certs[i].tip_name], t) + Count(todo, t)
                       = Count(tips, t)
             /\ \A i \in DOMAIN Certs : Certs[i].bbm_name = session_state.user.name
    /\ ~LoggedIn => "certs" \notin DOMAIN session_state

====
